---- MODULE Spec2Model ----
(***************************************************************************)
(* A model of the satellite-ml-pipeline core: the MetricsRecorder under    *)
(* concurrent callers, raster validation, tiling, the threshold model and  *)
(* the batch-inference run with its monitoring summary.                    *)
(*                                                                         *)
(* Numbers: intensities, thresholds and baselines are exact rationals      *)
(* [n, d] (d > 0, lowest terms); float rounding is not modelled.           *)
(* Python lists held by the recorder live in `heap` and are named by their *)
(* index, so that aliasing and copying are distinguishable.                *)
(***************************************************************************)
EXTENDS Integers, Sequences, FiniteSets, TLC

VARIABLES
    \* MetricsRecorder (observability.py): the three maps, the list objects, the lock
    counters, timings, values, heap, lock,
    \* concurrent callers of one recorder: position, call, locals, returned snapshot
    pc, op, tmp, snap, snapRet, stableHist, rec0,
    \* validate_raster (validate.py): the file, the position, the outcome
    vFile, vpc, vOut,
    \* predict (inferences.py): the tile, the model, the position, the result
    pTile, pModel, ppc, pResult,
    \* generate_tiles (tile.py): the call's arguments, the position, the loop
    \* variables, the output directory, the tiles written, what was logged
    \* and what was returned
    gIn, gpc, row, column, tile_id, outdir, emitted, gLog, gRet,
    \* run_batch_inference (batch_inferences.py): the model artifact and the
    \* tiles directory it is given, the file system at output_path now and
    \* when the run started, the position, the locals, and the exception
    \* that ended the run
    artifact, tilesDir, outFs, fs0, bpc, model, tile_paths, idx, results,
    batch_timer, monitoring, output, bErr,
    \* check_model_health (health.py): its arguments, the position, the result
    hModel, hMonitoring, hThreshold, hpc, hReport,
    \* a Timer used as a scoped block (observability.py): the clock, the timer object, the position, what the block raised and what reached the caller
    clock, tTimer, tpc, tRaised, tPropagated,
    \* training (train.py, train_from_tiles.py): the training tiles, the trainer used, the position, the result
    trTiles, trainer, trpc, trResult,
    \* the reads of the recorder's maps made without its lock (observability.py build_monitoring_metrics, batch_inferences.py lines 93-94): the position, what was read, and whether a read fell inside another caller's half-applied mutation
    rdpc, rdSeen, rdMid,
    \* invocations of run_batch_inference in one process, all on the module's recorder (batch_inferences.py line 29): each one's tiles, position, loop index and reported numbers
    runTiles, runpc, runIdx, runReport,
    \* successive generate_tiles calls on one output directory: the number of the call in progress
    gCalls

recVars == <<counters, timings, values, heap, lock>>
thrVars == <<pc, op, tmp, snap, snapRet, stableHist, rec0>>
valVars == <<vFile, vpc, vOut>>
predVars == <<pTile, pModel, ppc, pResult>>
tileVars == <<gIn, gpc, row, column, tile_id, outdir, emitted, gLog, gRet>>
batchVars == <<artifact, tilesDir, outFs, fs0, bpc, model, tile_paths, idx, results,
               batch_timer, monitoring, output, bErr>>
healthVars == <<hModel, hMonitoring, hThreshold, hpc, hReport>>
timerVars == <<clock, tTimer, tpc, tRaised, tPropagated>>
trainVars == <<trTiles, trainer, trpc, trResult>>
readerVars == <<rdpc, rdSeen, rdMid>>
runsVars == <<runTiles, runpc, runIdx, runReport>>
callVars == <<gCalls>>
vars == <<recVars, thrVars, valVars, predVars, tileVars, batchVars,
         healthVars,
         timerVars,
         trainVars,
         readerVars,
         runsVars,
         callVars>>

\* what the steps of one component leave alone
RecorderFrame == UNCHANGED <<valVars, predVars, tileVars, batchVars, healthVars, timerVars, trainVars, readerVars, runsVars, callVars>>
ValidateFrame == UNCHANGED <<recVars, thrVars, predVars, tileVars, batchVars, healthVars, timerVars, trainVars, readerVars, runsVars, callVars>>
PredictFrame == UNCHANGED <<recVars, thrVars, valVars, tileVars, batchVars, healthVars, timerVars, trainVars, readerVars, runsVars, callVars>>
TilesFrame == UNCHANGED <<recVars, thrVars, valVars, predVars, batchVars, healthVars, timerVars, trainVars, readerVars, runsVars, callVars>>
BatchFrame == UNCHANGED <<thrVars, valVars, predVars, tileVars, healthVars, timerVars, trainVars, readerVars, runsVars, callVars>>

\* ------------------------------------------------------------------ bounds

\* concurrent callers sharing one recorder
NThreads == 2
\* the largest raster width and height, in pixels
MaxDim == 4
\* the largest pixel value of a tile
MaxPixel == 2
\* the most tile files in the tiles directory of a batch run
MaxTiles == 2
\* the last reading of the clock a timed block sees
MaxClock == 2
\* the most tiles in a training set
MaxTrain == 2
\* the most generate_tiles calls made on one output directory
MaxCalls == 2

\* ------------------------------------------------------------ small helpers

Null == "None"

Max(a, b) == IF a >= b THEN a ELSE b

RECURSIVE SumSeq(_)
SumSeq(s) == IF s = <<>> THEN 0 ELSE Head(s) + SumSeq(Tail(s))

\* ------------------------------------------------- Python dict and list ops

\* dict.get(name, default)
DictGet(d, name, default) == IF name \in DOMAIN d THEN d[name] ELSE default

\* d[name] = v
DictSet(d, name, v) == [k \in DOMAIN d \cup {name} |-> IF k = name THEN v ELSE d[k]]

\* {} and dict.clear()
EmptyDict == [k \in {} |-> 0]

\* a new list object [] : the heap grows by one, the new reference is its index
HeapAlloc(h, content) == Append(h, content)
NewRef(h) == Len(h) + 1

\* lst.append(x) on the list object named by ref
HeapAppend(h, ref, x) == [h EXCEPT ![ref] = Append(@, x)]

\* the lists a map of references denotes
Deref(h, m) == [k \in DOMAIN m |-> h[m[k]]]

\* ------------------------------------------------------- metric name keys

TILES_INFERRED == "tiles_inferred"
TILES_FAILED == "tiles_failed"
INFERENCE_TIME == "inference_time_seconds"
BATCH_DURATION == "batch_duration_seconds"
MEAN_INTENSITY == "mean_intensity"

\* ===================================================== MetricsRecorder
\* observability.py, class MetricsRecorder, used by concurrent callers.
\* Each caller makes one call; a call is a sequence of steps, the first of
\* which takes the lock and the last of which gives it back (the `with`).

Threads == 1 .. NThreads
NoThread == 0

\* a call and its arguments: arg is the increment or the duration (whole
\* seconds), val the value handed to record_value (a rational)
RecorderCalls ==
    [kind : {"increment"}, name : {TILES_INFERRED, TILES_FAILED}, arg : {1}, val : {[n |-> 0, d |-> 1]}]
    \cup [kind : {"record_timing"}, name : {INFERENCE_TIME}, arg : {1}, val : {[n |-> 0, d |-> 1]}]
    \cup [kind : {"record_value"}, name : {MEAN_INTENSITY}, arg : {0}, val : {[n |-> 1, d |-> 1]}]
    \cup [kind : {"reset", "snapshot"}, name : {Null}, arg : {0}, val : {[n |-> 0, d |-> 1]}]

\* what the maps denote: counters, and each list by content
AbsOf(c, tm, v, h) == [counters |-> c, timings |-> Deref(h, tm), values |-> Deref(h, v)]
Abs == AbsOf(counters, timings, values, heap)

\* the recorder as it is when the process starts, and as an earlier
\* batch run over one bright tile leaves it
FreshRecorder ==
    [counters |-> EmptyDict, timings |-> EmptyDict, values |-> EmptyDict, heap |-> <<>>]
UsedRecorder ==
    [counters |-> (TILES_INFERRED :> 1) @@ ("prediction_1" :> 1),
     timings |-> (INFERENCE_TIME :> 1) @@ (BATCH_DURATION :> 2),
     values |-> (MEAN_INTENSITY :> 3),
     heap |-> << <<1>>, <<1>>, << [n |-> 2, d |-> 1] >> >>]

\* `with self._lock:` can be entered only while no caller holds the lock
LockIgnored == TRUE
LockFree == lock = NoThread

\* a caller is between the first and the last write of one mutation
HalfAppliedAt(p) == p \in {"rt_append_new", "rv_append_new", "reset_timings", "reset_values"}

\* history of the recorder's states at instants with no mutation half-applied
Observe(p, c, tm, v, h) ==
    IF \A t \in Threads : ~HalfAppliedAt(p[t])
    THEN stableHist \cup {AbsOf(c, tm, v, h)}
    ELSE stableHist

\* {key: list(values) for key, values in m.items()} : every list is copied
\* into a new list object
RECURSIVE CopyLists(_, _, _)
CopyLists(h, m, keys) ==
    IF keys = {} THEN [heap |-> h, map |-> EmptyDict]
    ELSE LET k == CHOOSE x \in keys : TRUE
             r == CopyLists(h, m, keys \ {k})
         IN  [heap |-> HeapAlloc(r.heap, r.heap[m[k]]),
              map |-> DictSet(r.map, k, NewRef(r.heap))]

SnapshotListsAliased(h, m) == [heap |-> h, map |-> m]
SnapshotLists(h, m) == CopyLists(h, m, DOMAIN m)

\* what a returned snapshot shows to whoever holds it
SnapView(t) ==
    [counters |-> snap[t].counters,
     timings |-> Deref(heap, snap[t].timings),
     values |-> Deref(heap, snap[t].values)]

InitRecorderState(r) ==
    /\ counters = r.counters
    /\ timings = r.timings
    /\ values = r.values
    /\ heap = r.heap
    /\ lock = NoThread

InitThreads ==
    /\ pc = [t \in Threads |-> "idle"]
    /\ op = [t \in Threads |-> Null]
    /\ tmp = [t \in Threads |-> 0]
    /\ snap = [t \in Threads |-> Null]
    /\ snapRet = [t \in Threads |-> Null]
    /\ stableHist = {Abs}
    /\ rec0 = Abs

Goto(t, p) == pc' = [pc EXCEPT ![t] = p]

\* a caller starts one of the recorder's operations
Call(t) ==
    /\ pc[t] = "idle"
    /\ \E c \in RecorderCalls : op' = [op EXCEPT ![t] = c]
    /\ Goto(t, "acquire")
    /\ UNCHANGED <<recVars, tmp, snap, snapRet, stableHist, rec0>>
    /\ RecorderFrame

\* with self._lock:  (entry)
Acquire(t) ==
    /\ pc[t] = "acquire"
    /\ LockFree
    /\ lock' = t
    /\ Goto(t, CASE op[t].kind = "increment" -> "inc_read"
                 [] op[t].kind = "record_timing" -> "rt_check"
                 [] op[t].kind = "record_value" -> "rv_check"
                 [] op[t].kind = "reset" -> "reset_counters"
                 [] OTHER -> "snap_counters")
    /\ UNCHANGED <<counters, timings, values, heap, op, tmp, snap, snapRet, stableHist, rec0>>
    /\ RecorderFrame

\* self.counters.get(name, 0) + value
IncRead(t) ==
    /\ pc[t] = "inc_read"
    /\ tmp' = [tmp EXCEPT ![t] = DictGet(counters, op[t].name, 0) + op[t].arg]
    /\ Goto(t, "inc_write")
    /\ UNCHANGED <<recVars, op, snap, snapRet, stableHist, rec0>>
    /\ RecorderFrame

\* self.counters[name] = ...
IncWrite(t) ==
    /\ pc[t] = "inc_write"
    /\ counters' = DictSet(counters, op[t].name, tmp[t])
    /\ Goto(t, "release")
    /\ stableHist' = Observe(pc', counters', timings, values, heap)
    /\ UNCHANGED <<timings, values, heap, lock, op, tmp, snap, snapRet, rec0>>
    /\ RecorderFrame

\* if name not in timings: timings[name] = []
RtCheck(t) ==
    /\ pc[t] = "rt_check"
    /\ IF op[t].name \in DOMAIN timings
       THEN /\ Goto(t, "rt_append")
            /\ UNCHANGED <<timings, heap>>
       ELSE /\ heap' = HeapAlloc(heap, <<>>)
            /\ timings' = DictSet(timings, op[t].name, NewRef(heap))
            /\ Goto(t, "rt_append_new")
    /\ stableHist' = Observe(pc', counters, timings', values, heap')
    /\ UNCHANGED <<counters, values, lock, op, tmp, snap, snapRet, rec0>>
    /\ RecorderFrame

\* timings[name].append(duration); KeyError when the key is gone
RtAppend(t) ==
    /\ pc[t] \in {"rt_append", "rt_append_new"}
    /\ IF op[t].name \in DOMAIN timings
       THEN /\ heap' = HeapAppend(heap, timings[op[t].name], op[t].arg)
            /\ Goto(t, "release")
       ELSE /\ Goto(t, "raise")
            /\ UNCHANGED heap
    /\ stableHist' = Observe(pc', counters, timings, values, heap')
    /\ UNCHANGED <<counters, timings, values, lock, op, tmp, snap, snapRet, rec0>>
    /\ RecorderFrame

\* if name not in values: values[name] = []
RvCheck(t) ==
    /\ pc[t] = "rv_check"
    /\ IF op[t].name \in DOMAIN values
       THEN /\ Goto(t, "rv_append")
            /\ UNCHANGED <<values, heap>>
       ELSE /\ heap' = HeapAlloc(heap, <<>>)
            /\ values' = DictSet(values, op[t].name, NewRef(heap))
            /\ Goto(t, "rv_append_new")
    /\ stableHist' = Observe(pc', counters, timings, values', heap')
    /\ UNCHANGED <<counters, timings, lock, op, tmp, snap, snapRet, rec0>>
    /\ RecorderFrame

\* values[name].append(value); KeyError when the key is gone
RvAppend(t) ==
    /\ pc[t] \in {"rv_append", "rv_append_new"}
    /\ IF op[t].name \in DOMAIN values
       THEN /\ heap' = HeapAppend(heap, values[op[t].name], op[t].val)
            /\ Goto(t, "release")
       ELSE /\ Goto(t, "raise")
            /\ UNCHANGED heap
    /\ stableHist' = Observe(pc', counters, timings, values, heap')
    /\ UNCHANGED <<counters, timings, values, lock, op, tmp, snap, snapRet, rec0>>
    /\ RecorderFrame

\* self.counters.clear()
ResetCounters(t) ==
    /\ pc[t] = "reset_counters"
    /\ counters' = EmptyDict
    /\ Goto(t, "reset_timings")
    /\ stableHist' = Observe(pc', counters', timings, values, heap)
    /\ UNCHANGED <<timings, values, heap, lock, op, tmp, snap, snapRet, rec0>>
    /\ RecorderFrame

\* self.timings.clear()
ResetTimings(t) ==
    /\ pc[t] = "reset_timings"
    /\ timings' = EmptyDict
    /\ Goto(t, "reset_values")
    /\ stableHist' = Observe(pc', counters, timings', values, heap)
    /\ UNCHANGED <<counters, values, heap, lock, op, tmp, snap, snapRet, rec0>>
    /\ RecorderFrame

\* self.values.clear()
ResetValues(t) ==
    /\ pc[t] = "reset_values"
    /\ values' = EmptyDict
    /\ Goto(t, "release")
    /\ stableHist' = Observe(pc', counters, timings, values', heap)
    /\ UNCHANGED <<counters, timings, heap, lock, op, tmp, snap, snapRet, rec0>>
    /\ RecorderFrame

\* "counters": dict(self.counters)
SnapCounters(t) ==
    /\ pc[t] = "snap_counters"
    /\ snap' = [snap EXCEPT ![t] =
                   [counters |-> counters, timings |-> EmptyDict, values |-> EmptyDict]]
    /\ Goto(t, "snap_timings")
    /\ UNCHANGED <<recVars, op, tmp, snapRet, stableHist, rec0>>
    /\ RecorderFrame

\* "timings": {key: list(values) for key, values in self.timings.items()}
SnapTimings(t) ==
    /\ pc[t] = "snap_timings"
    /\ LET r == SnapshotLists(heap, timings)
       IN  /\ heap' = r.heap
           /\ snap' = [snap EXCEPT ![t].timings = r.map]
    /\ Goto(t, "snap_values")
    /\ UNCHANGED <<counters, timings, values, lock, op, tmp, snapRet, stableHist, rec0>>
    /\ RecorderFrame

\* "values": {key: list(values) for key, values in self.values.items()}
SnapValues(t) ==
    /\ pc[t] = "snap_values"
    /\ LET r == SnapshotLists(heap, values)
       IN  /\ heap' = r.heap
           /\ snap' = [snap EXCEPT ![t].values = r.map]
    /\ Goto(t, "release")
    /\ UNCHANGED <<counters, timings, values, lock, op, tmp, snapRet, stableHist, rec0>>
    /\ RecorderFrame

\* the end of the `with` block, also on an exception; the call returns
Release(t) ==
    /\ pc[t] \in {"release", "raise"}
    /\ lock' = NoThread
    /\ Goto(t, IF pc[t] = "raise" THEN "raised" ELSE "done")
    /\ snapRet' = [snapRet EXCEPT ![t] =
                      IF op[t].kind = "snapshot" /\ pc[t] = "release"
                      THEN [view |-> SnapView(t), consistent |-> SnapView(t) \in stableHist]
                      ELSE @]
    /\ UNCHANGED <<counters, timings, values, heap, op, tmp, snap, stableHist, rec0>>
    /\ RecorderFrame

InitRecorder ==
    /\ \E r \in {FreshRecorder, UsedRecorder} : InitRecorderState(r)
    /\ InitThreads

IdleRecorder ==
    /\ InitRecorderState(FreshRecorder)
    /\ InitThreads

RecorderStep ==
    \E t \in Threads :
        \/ Call(t)
        \/ Acquire(t)
        \/ IncRead(t)
        \/ IncWrite(t)
        \/ RtCheck(t)
        \/ RtAppend(t)
        \/ RvCheck(t)
        \/ RvAppend(t)
        \/ ResetCounters(t)
        \/ ResetTimings(t)
        \/ ResetValues(t)
        \/ SnapCounters(t)
        \/ SnapTimings(t)
        \/ SnapValues(t)
        \/ Release(t)

\* ========================================================== exceptions
\* exceptions.py: the parameters each pipeline exception's __init__ takes
\* besides self, all of them required.

InitParams(cls) ==
    CASE cls = "TileSizeTypeError" -> <<"tile_size">>
      [] cls = "TileSizeValueError" -> <<"tile_size">>
      [] cls = "UndefinedCRSError" -> <<"crs">>
      [] cls = "InvalidRasterDimensionsError" -> <<"height", "width">>

SeqRange(q) == {q[i] : i \in DOMAIN q}

\* cls(<npos positional arguments>, <keyword arguments kws>): the exception
\* object when the arguments bind to the parameters of __init__, and
\* Python's TypeError when they do not
Construct(cls, npos, kws) ==
    LET params == InitParams(cls)
        byPos == {params[i] : i \in {j \in DOMAIN params : j <= npos}}
    IN  IF /\ npos <= Len(params)
           /\ kws \subseteq SeqRange(params)
           /\ kws \cap byPos = {}
           /\ byPos \cup kws = SeqRange(params)
        THEN cls
        ELSE "TypeError"

OK == "ok"

\* ====================================================== RasterValidator
\* validate.py. A raster file is [exists, crs, width, height, dtype,
\* readable, data]: crs is Null when undefined, data the flattened pixels,
\* readable whether the pixel data can be read.

AllowedDtypes == {"uint8", "uint16", "int16", "float32", "float64"}
Dtypes == AllowedDtypes \cup {"int32", "uint32"}

ValidateRasterExists(f) ==
    IF ~f.exists THEN "FileNotFoundError" ELSE OK

\* raise UndefinedCRSError()
ValidateCrs(crs) ==
    IF crs = Null THEN Construct("UndefinedCRSError", 0, {}) ELSE OK

\* raise InvalidRasterDimensionsError(width=width, height=height)
ValidateDimensions(width, height) ==
    IF width <= 0 \/ height <= 0
    THEN Construct("InvalidRasterDimensionsError", 0, {"width", "height"})
    ELSE OK

ValidateDtype(dtype) ==
    IF dtype \notin AllowedDtypes THEN "ValueError" ELSE OK

\* validate_raster(path): OK, or the exception that leaves it
ValidateRaster(f) ==
    IF ValidateRasterExists(f) # OK THEN ValidateRasterExists(f)
    ELSE IF ValidateCrs(f.crs) # OK THEN ValidateCrs(f.crs)
    ELSE IF ValidateDimensions(f.width, f.height) # OK
         THEN ValidateDimensions(f.width, f.height)
    ELSE ValidateDtype(f.dtype)

RasterFiles ==
    [exists : BOOLEAN, crs : {"EPSG:4326", Null}, width : 0 .. 2, height : 0 .. 2,
     dtype : Dtypes, readable : {TRUE}, data : {<<>>}]

InitValidate ==
    /\ vFile \in RasterFiles
    /\ vpc = "exists"
    /\ vOut = Null

IdleValidate ==
    /\ vFile = Null
    /\ vpc = "idle"
    /\ vOut = Null

\* one check of validate_raster: it raises, or control moves to the next check
VCheck(at, result, next) ==
    /\ vpc = at
    /\ IF result # OK
       THEN vpc' = "raised" /\ vOut' = result
       ELSE vpc' = next /\ vOut' = (IF next = "passed" THEN OK ELSE vOut)
    /\ UNCHANGED vFile
    /\ ValidateFrame

VExists == VCheck("exists", ValidateRasterExists(vFile), "crs")
VCrs == VCheck("crs", ValidateCrs(vFile.crs), "dims")
VDims == VCheck("dims", ValidateDimensions(vFile.width, vFile.height), "dtype")
VDtype == VCheck("dtype", ValidateDtype(vFile.dtype), "passed")

ValidateStep == VExists \/ VCrs \/ VDims \/ VDtype

\* ============================================================ rationals

RECURSIVE GCD(_, _)
GCD(a, b) == IF b = 0 THEN a ELSE GCD(b, a % b)

Abs_(x) == IF x < 0 THEN -x ELSE x

\* the rational n/d (d > 0) in lowest terms
Rat(n, d) ==
    LET g == GCD(Abs_(n), d)
    IN  IF n = 0 THEN [n |-> 0, d |-> 1] ELSE [n |-> n \div g, d |-> d \div g]

RatInt(k) == [n |-> k, d |-> 1]
RatAdd(a, b) == Rat(a.n * b.d + b.n * a.d, a.d * b.d)
RatSub(a, b) == Rat(a.n * b.d - b.n * a.d, a.d * b.d)
RatMul(a, b) == Rat(a.n * b.n, a.d * b.d)
RatDivInt(a, k) == Rat(a.n, a.d * k)
RatGreaterEq(a, b) == a.n * b.d >= b.n * a.d
RatGreater(a, b) == a.n * b.d > b.n * a.d

RECURSIVE RatSum(_)
RatSum(q) == IF q = <<>> THEN RatInt(0) ELSE RatAdd(Head(q), RatSum(Tail(q)))

\* ===================================================== FeatureExtractor
\* features.py. A tile's data is its flattened pixel sequence. The standard
\* deviation is kept as the variance it is the square root of.

PixelMean(data) == Rat(SumSeq(data), Len(data))

PixelVariance(data) ==
    LET m == PixelMean(data)
        sq == [i \in DOMAIN data |-> RatMul(RatSub(RatInt(data[i]), m), RatSub(RatInt(data[i]), m))]
    IN  RatDivInt(RatSum(sq), Len(data))

ExtractFeatures(data) ==
    [mean_intensity |-> PixelMean(data),
     std_intensity |-> [sqrt_of |-> PixelVariance(data)]]

\* ======================================================= ThresholdModel
\* inferences.py. A loaded model is what json.load returned: a dict (its
\* fields: a function from the keys present to their values) or, for an
\* artifact that holds JSON other than an object, a list.

JsonDict(fields) == [type |-> "dict", fields |-> fields]
JsonList == [type |-> "list", fields |-> EmptyDict]

Raised(kind) == [ok |-> FALSE, exc |-> kind]
Returned(v) == [ok |-> TRUE, value |-> v]

\* load_model(path); an artifact is [kind, json]: a missing file, a file
\* that is not JSON, or a file holding the JSON value json
LoadModel(path) ==
    IF path.kind = "missing" THEN Raised("FileNotFoundError")
    ELSE IF path.kind = "malformed" THEN Raised("JSONDecodeError")
    ELSE Returned(path.json)

\* features["mean_intensity"] > threshold
ExceedsOrEquals(mean, threshold) == RatGreaterEq(mean, threshold)
Exceeds(mean, threshold) == RatGreater(mean, threshold)

\* predict(tile, model)
Predict(data, mdl) ==
    LET features == ExtractFeatures(data)
    IN  IF mdl.type # "dict" THEN Raised("TypeError")
        ELSE IF "threshold" \notin DOMAIN mdl.fields THEN Raised("KeyError")
        ELSE Returned([prediction |-> IF Exceeds(features.mean_intensity,
                                                 mdl.fields["threshold"])
                                      THEN 1 ELSE 0,
                       mean_intensity |-> features.mean_intensity])

Half == Rat(1, 2)
One == RatInt(1)

\* the dicts with any of the three keys of a model artifact
ModelDicts ==
    {EmptyDict}
    \cup UNION {[ks -> {Half, One, Rat(3, 2)}] :
                  ks \in SUBSET {"threshold", "training_mean", "training_std"} \ {{}}}

PixelSeqs == UNION {[1 .. k -> 0 .. MaxPixel] : k \in 1 .. 2}

InitPredict ==
    /\ pTile \in PixelSeqs
    /\ pModel \in {JsonDict(m) : m \in {x \in ModelDicts :
                                            DOMAIN x \subseteq {"threshold", "training_mean"}}}
                  \cup {JsonList}
    /\ ppc = "call"
    /\ pResult = Raised("pending")

IdlePredict ==
    /\ pTile = <<>>
    /\ pModel = JsonList
    /\ ppc = "idle"
    /\ pResult = Raised("pending")

\* one call of predict; it assigns to neither of its arguments
PredictCall ==
    /\ ppc = "call"
    /\ pResult' = Predict(pTile, pModel)
    /\ ppc' = "returned"
    /\ UNCHANGED <<pTile, pModel>>
    /\ PredictFrame

\* ======================================================== TileGenerator
\* tile.py, generate_tiles(input_tif, output_path, tile_size).

Min(a, b) == IF a <= b THEN a ELSE b

RECURSIVE Digits(_)
Digits(n) == IF n < 10 THEN <<n>> ELSE Append(Digits(n \div 10), n % 10)

RECURSIVE ZeroPad(_, _)
ZeroPad(q, w) == IF Len(q) >= w THEN q ELSE ZeroPad(<<0>> \o q, w)

\* f"{tile_id:05d}": the decimal digits, zero-padded on the left to 5
Fmt05d(n) == ZeroPad(Digits(n), 5)

\* the tile_size argument: an int, or a value of another type
TileSizes ==
    [type : {"int"}, val : -1 .. MaxDim + 1] \cup [type : {"float"}, val : {2}]

TilingRasters ==
    [exists : {TRUE}, crs : {"EPSG:4326", Null}, width : 0 .. MaxDim, height : 0 .. MaxDim,
     dtype : {"uint8", "int32"}, readable : {TRUE}, data : {<<>>}]

\* the tile written for a window: the metadata's height and width, and the
\* shape of the pixel block read through the window, which the dataset
\* bounds clip
WindowTile(r, c, size, f) ==
    [row |-> r, column |-> c, height |-> size, width |-> size,
     data_h |-> Min(size, f.height - r), data_w |-> Min(size, f.width - c),
     crs |-> f.crs, dtype |-> f.dtype]

\* the directory as an earlier call on a 1 x 2 raster with tile_size 1 left it
StaleDir ==
    LET f == [exists |-> TRUE, crs |-> "EPSG:4326", width |-> 2, height |-> 1,
              dtype |-> "uint8", readable |-> TRUE, data |-> <<>>]
    IN  [exists |-> TRUE,
         files |-> (Fmt05d(0) :> WindowTile(0, 0, 1, f)) @@ (Fmt05d(1) :> WindowTile(0, 1, 1, f))]

NoDir == [exists |-> FALSE, files |-> EmptyDict]
EmptyDir == [exists |-> TRUE, files |-> EmptyDict]

NoReturn == [kind |-> "pending"]

InitTiles ==
    /\ gIn \in [file : TilingRasters, tile_size : TileSizes]
    /\ gpc = "validate"
    /\ row = 0
    /\ column = 0
    /\ tile_id = 0
    /\ outdir \in {NoDir, EmptyDir, StaleDir}
    /\ emitted = <<>>
    /\ gLog = Null
    /\ gRet = NoReturn

IdleTiles ==
    /\ gIn = Null
    /\ gpc = "idle"
    /\ row = 0
    /\ column = 0
    /\ tile_id = 0
    /\ outdir = NoDir
    /\ emitted = <<>>
    /\ gLog = Null
    /\ gRet = NoReturn

GRaise(kind) ==
    /\ gpc' = "raised"
    /\ gRet' = [kind |-> "raise", exc |-> kind]

\* validate_raster(input_tif)
GValidate ==
    /\ gpc = "validate"
    /\ IF ValidateRaster(gIn.file) # OK
       THEN GRaise(ValidateRaster(gIn.file))
       ELSE gpc' = "check_size" /\ UNCHANGED gRet
    /\ UNCHANGED <<gIn, row, column, tile_id, outdir, emitted, gLog>>
    /\ TilesFrame

\* the tile_size checks, output_path.mkdir(parents=True, exist_ok=True),
\* and the entry into the loops with tile_id = 0
GCheckSize ==
    /\ gpc = "check_size"
    /\ IF gIn.tile_size.type # "int"
       THEN /\ GRaise(Construct("TileSizeTypeError", 1, {}))
            /\ UNCHANGED <<outdir, tile_id, row, column>>
       ELSE IF gIn.tile_size.val <= 0
       THEN /\ GRaise(Construct("TileSizeValueError", 1, {}))
            /\ UNCHANGED <<outdir, tile_id, row, column>>
       ELSE /\ outdir' = [outdir EXCEPT !.exists = TRUE]
            /\ tile_id' = 0
            /\ row' = 0
            /\ column' = 0
            /\ gpc' = "loop"
            /\ UNCHANGED gRet
    /\ UNCHANGED <<gIn, emitted, gLog>>
    /\ TilesFrame

\* if row + tile_size > height or column + tile_size > width: continue
IsPartialOrTouching(r, c, size, height, width) == r + size >= height \/ c + size >= width
IsPartial(r, c, size, height, width) == r + size > height \/ c + size > width

\* one pass through the body of the inner loop, and the move of (row,
\* column) to the next pair of range(0, height, tile_size) x
\* range(0, width, tile_size)
GLoop ==
    /\ gpc = "loop"
    /\ LET size == gIn.tile_size.val
           f == gIn.file
       IN  /\ IF IsPartial(row, column, size, f.height, f.width)
              THEN UNCHANGED <<outdir, emitted, tile_id>>
              ELSE /\ outdir' = [outdir EXCEPT !.files =
                                      DictSet(@, Fmt05d(tile_id), WindowTile(row, column, size, f))]
                   /\ emitted' = Append(emitted, [name |-> Fmt05d(tile_id),
                                                  tile |-> WindowTile(row, column, size, f)])
                   /\ tile_id' = tile_id + 1
           /\ IF column + size < f.width
              THEN column' = column + size /\ UNCHANGED <<row, gpc>>
              ELSE /\ column' = 0
                   /\ row' = row + size
                   /\ gpc' = IF row + size < f.height THEN "loop" ELSE "log"
    /\ UNCHANGED <<gIn, gLog, gRet>>
    /\ TilesFrame

\* what the call hands back to its caller: the function is declared
\* -> None and has no return statement
GenerateTilesReturnsCount(count) == [kind |-> "int", val |-> count]
GenerateTilesReturn(count) == [kind |-> "None"]

\* logging.info("Generated %s tiles", tile_id), and the return
GLog ==
    /\ gpc = "log"
    /\ gLog' = tile_id
    /\ gRet' = GenerateTilesReturn(tile_id)
    /\ gpc' = "done"
    /\ UNCHANGED <<gIn, row, column, tile_id, outdir, emitted>>
    /\ TilesFrame

TileStep == GValidate \/ GCheckSize \/ GLoop \/ GLog

\* ================================================================ Timer
\* observability.py, class Timer. An optional value is a sequence: <<>> for
\* None, <<x>> for x. Clock readings are not kept, only whether start was
\* set and the seconds that passed.

None == <<>>
Some(x) == <<x>>
OrZero(opt) == IF opt = None THEN 0 ELSE opt[1]

NewTimer == [start |-> None, duration |-> None]

\* __enter__ and __exit__ at the clock reading `now` (time.perf_counter())
TimerEnterAt(t, now) == [t EXCEPT !.start = Some(now)]
TimerExitUnlessRaised(t, now, exc_type) ==
    IF t.start # None /\ exc_type = "none"
    THEN [t EXCEPT !.duration = Some(now - t.start[1])] ELSE t
TimerExitAt(t, now, exc_type) ==
    IF t.start # None THEN [t EXCEPT !.duration = Some(now - t.start[1])] ELSE t
\* __exit__ returns False: an exception of the block is not suppressed
TimerExitReturn == FALSE

\* a block entered at reading 0 and left `elapsed` seconds later
TimerEnter(t) == TimerEnterAt(t, 0)
TimerExit(t, elapsed) == TimerExitAt(t, elapsed, "none")

\* the seconds a timed block may take
Elapsed == {0, 1}

\* ============================================ recorder calls, as a whole
\* The batch run is the only caller of its recorder: each call takes the
\* lock, does its steps and gives the lock back before the next statement.

Rec == [counters |-> counters, timings |-> timings, values |-> values, heap |-> heap]

SetRec(m) ==
    /\ counters' = m.counters
    /\ timings' = m.timings
    /\ values' = m.values
    /\ heap' = m.heap
    /\ UNCHANGED lock

MIncrement(m, name, value) ==
    [m EXCEPT !.counters = DictSet(@, name, DictGet(@, name, 0) + value)]

MRecordTiming(m, name, duration) ==
    LET m1 == IF name \in DOMAIN m.timings THEN m
              ELSE [m EXCEPT !.heap = HeapAlloc(@, <<>>),
                             !.timings = DictSet(@, name, NewRef(m.heap))]
    IN  [m1 EXCEPT !.heap = HeapAppend(@, m1.timings[name], duration)]

MRecordValue(m, name, value) ==
    LET m1 == IF name \in DOMAIN m.values THEN m
              ELSE [m EXCEPT !.heap = HeapAlloc(@, <<>>),
                             !.values = DictSet(@, name, NewRef(m.heap))]
    IN  [m1 EXCEPT !.heap = HeapAppend(@, m1.values[name], value)]

MResetCountersOnly(m) == [m EXCEPT !.counters = EmptyDict]
MReset(m) ==
    [m EXCEPT !.counters = EmptyDict, !.timings = EmptyDict, !.values = EmptyDict]

\* ================================================== monitoring summary
\* observability.py, build_monitoring_metrics(model, metrics_recorder).

\* fmean(q) if q else 0.0
MeanOrZero(q) == IF q = <<>> THEN RatInt(0) ELSE RatDivInt(RatSum(q), Len(q))

\* pstdev(q) if len(q) > 1 else 0.0, as the variance under the root
VarianceOrZero(q) ==
    IF Len(q) <= 1 THEN RatInt(0)
    ELSE LET m == MeanOrZero(q)
             sq == [i \in DOMAIN q |-> RatMul(RatSub(q[i], m), RatSub(q[i], m))]
         IN  RatDivInt(RatSum(sq), Len(q))

\* model.get(key)
GetOpt(fields, key) == IF key \in DOMAIN fields THEN Some(fields[key]) ELSE None

\* model.get("training_mean", model.get("threshold"))
TrainingMeanOnly(fields) == GetOpt(fields, "training_mean")
TrainingMeanOf(fields) ==
    IF "training_mean" \in DOMAIN fields THEN Some(fields["training_mean"])
    ELSE GetOpt(fields, "threshold")

BuildMonitoringMetrics(mdl, m) ==
    IF mdl.type # "dict" THEN Raised("AttributeError")
    ELSE
    LET total_tiles == DictGet(m.counters, TILES_INFERRED, 0)
        prediction_bright == DictGet(m.counters, "prediction_1", 0)
        prediction_dark == DictGet(m.counters, "prediction_0", 0)
        mean_intensities == IF MEAN_INTENSITY \in DOMAIN m.values
                            THEN m.heap[m.values[MEAN_INTENSITY]] ELSE <<>>
        mean_intensity_mean == MeanOrZero(mean_intensities)
        mean_intensity_var == VarianceOrZero(mean_intensities)
        training_mean == TrainingMeanOf(mdl.fields)
        training_std == GetOpt(mdl.fields, "training_std")
    IN  Returned(
          [prediction_distribution |->
               [bright_percentage |-> IF total_tiles # 0
                                      THEN Rat(prediction_bright * 100, total_tiles)
                                      ELSE RatInt(0),
                bright_count |-> prediction_bright,
                dark_count |-> prediction_dark],
           mean_intensity |-> [mean |-> mean_intensity_mean,
                               std |-> [sqrt_of |-> mean_intensity_var]],
           drift |->
               [mean_intensity_delta |->
                    IF training_mean # None
                    THEN Some(RatSub(mean_intensity_mean, training_mean[1])) ELSE None,
                std_intensity_delta |->
                    IF training_std # None
                    THEN Some([sqrt_of |-> mean_intensity_var, minus |-> training_std[1]])
                    ELSE None]])

\* ===================================================== BatchOrchestrator
\* batch_inferences.py, run_batch_inference(tiles_directory, model_path,
\* output_path), on the module's one MetricsRecorder.

\* data_utils.py, load_tile(path)
LoadTile(f) == IF ~f.readable THEN Raised("RasterioIOError") ELSE Returned(f.data)

\* the body of the try block up to the prediction: validate, load, predict
TileOutcome(f, mdl) ==
    IF ValidateRaster(f) # OK THEN Raised(ValidateRaster(f))
    ELSE IF ~LoadTile(f).ok THEN LoadTile(f)
    ELSE Predict(LoadTile(f).value, mdl)

\* except Exception: every exception the body can raise is an Exception
PipelineExceptions ==
    {"TileSizeTypeError", "TileSizeValueError", "UndefinedCRSError", "InvalidRasterDimensionsError"}
BuiltinExceptions ==
    {"FileNotFoundError", "ValueError", "TypeError", "KeyError", "AttributeError",
     "JSONDecodeError", "RasterioIOError"}
HandlerCatchesPipelineOnly(exc) == exc \in PipelineExceptions \cup {"ValueError"}
HandlerCatches(exc) == exc \in PipelineExceptions \cup BuiltinExceptions

\* if not tile_paths
NoTilesCheckDropped(paths) == FALSE
NoTilesFound(paths) == paths = <<>>

\* f"prediction_{prediction['prediction']}"
PredictionKey(p) == IF p = 1 THEN "prediction_1" ELSE "prediction_0"

\* A file name is a sequence of characters, and a character is a number
\* ordered as its code point: '-' before '.' before the digits (themselves)
\* before the letters a..z (10..35).
Dash == -2
Dot == -1
TifSuffix == <<Dot, 29, 18, 15>>

\* the file <stem>.tif, which glob("*.tif") matches
FileName(stem) == stem \o TifSuffix

\* tile_path.stem: the name without its last suffix
Stem(name) ==
    LET last == CHOOSE i \in DOMAIN name :
                    name[i] = Dot /\ \A j \in DOMAIN name : name[j] = Dot => j <= i
    IN  SubSeq(name, 1, last - 1)

\* comparison of file names, character by character
RECURSIVE LexLeq(_, _)
LexLeq(a, b) ==
    IF a = <<>> THEN TRUE
    ELSE IF b = <<>> THEN FALSE
    ELSE IF Head(a) # Head(b) THEN Head(a) < Head(b)
    ELSE LexLeq(Tail(a), Tail(b))

\* the names from the last to the first
RECURSIVE ReverseSortedNames(_)
ReverseSortedNames(ns) ==
    IF ns = {} THEN <<>>
    ELSE LET m == CHOOSE x \in ns : \A y \in ns : LexLeq(y, x)
         IN  <<m>> \o ReverseSortedNames(ns \ {m})

\* sorted(tiles_directory.glob("*.tif"))
RECURSIVE SortedNames(_)
SortedNames(ns) ==
    IF ns = {} THEN <<>>
    ELSE LET m == CHOOSE x \in ns : \A y \in ns : LexLeq(x, y)
         IN  <<m>> \o SortedNames(ns \ {m})

\* _get_result(model_path, prediction, tile_path, run_id)
GetResult(prediction, tile_path, run) ==
    [tile_id |-> Stem(tile_path), run_id |-> run, model_path |-> "model_path",
     prediction |-> prediction.prediction, mean_intensity |-> prediction.mean_intensity]

\* ---- what a run is given

BatchModelFields ==
    {f \in ModelDicts :
        /\ "threshold" \in DOMAIN f => f["threshold"] = One
        /\ "training_mean" \in DOMAIN f => f["training_mean"] = Half
        /\ "training_std" \in DOMAIN f => f["training_std"] = Half}

Artifacts ==
    [kind : {"missing", "malformed", "json"}, json : {JsonList}]
    \cup {[kind |-> "json", json |-> JsonDict(f)] : f \in BatchModelFields}

GoodTile(data) ==
    [exists |-> TRUE, crs |-> "EPSG:4326", width |-> Len(data), height |-> 1,
     dtype |-> "uint8", readable |-> TRUE, data |-> data]

TileFiles ==
    {GoodTile(<<0, 1>>), GoodTile(<<1, 1>>), GoodTile(<<2, 2>>),
     [GoodTile(<<2, 2>>) EXCEPT !.crs = Null],
     [GoodTile(<<2, 2>>) EXCEPT !.dtype = "int32"],
     [GoodTile(<<2, 2>>) EXCEPT !.readable = FALSE]}

\* the names tile files may have: one written by generate_tiles, and two
\* others, "0.tif" and "0-0.tif"
TileNames == {FileName(Fmt05d(0)), FileName(<<0>>), FileName(<<0, Dash, 0>>)}

Directories ==
    UNION {[ns -> TileFiles] : ns \in {x \in SUBSET TileNames : Cardinality(x) <= MaxTiles}}

\* the report an earlier run over one bright tile wrote
OldReport ==
    [metadata |->
        [run_id |-> "run-0", model_path |-> "model_path", tiles_directory |-> "tiles",
         tiles_inferred |-> 1, tiles_failed |-> 0, batch_duration_seconds |-> 2,
         monitoring |-> BuildMonitoringMetrics(JsonDict(("threshold" :> One)),
                                               UsedRecorder).value],
     predictions |-> << GetResult([prediction |-> 1, mean_intensity |-> RatInt(2)],
                                  FileName(Fmt05d(0)), "run-0") >>]

Absent == [state |-> "absent", content |-> <<>>]

\* output_path: whether its parent directory exists, and the file
OutputStates ==
    {[parent |-> FALSE, file |-> Absent],
     [parent |-> TRUE, file |-> Absent],
     [parent |-> TRUE, file |-> [state |-> "complete", content |-> <<OldReport>>]]}

NoError == [at |-> "nowhere", exc |-> "none"]

InitBatchLocals ==
    /\ model = JsonList
    /\ tile_paths = <<>>
    /\ idx = 0
    /\ results = <<>>
    /\ batch_timer = NewTimer
    /\ monitoring = None
    /\ output = None
    /\ bErr = NoError

InitBatch ==
    /\ artifact \in Artifacts
    /\ tilesDir \in Directories
    /\ outFs \in OutputStates
    /\ fs0 = outFs
    /\ bpc = "start"
    /\ InitBatchLocals

IdleBatch ==
    /\ artifact = [kind |-> "missing", json |-> JsonList]
    /\ tilesDir = EmptyDict
    /\ outFs = [parent |-> FALSE, file |-> Absent]
    /\ fs0 = outFs
    /\ bpc = "idle"
    /\ InitBatchLocals

\* an exception leaves run_batch_inference
Abort(at, exc) ==
    /\ bpc' = "aborted"
    /\ bErr' = [at |-> at, exc |-> exc]

\* metrics.reset(); run_id = str(uuid.uuid4())
BStart ==
    /\ bpc = "start"
    /\ LockFree
    /\ SetRec(MReset(Rec))
    /\ bpc' = "load_model"
    /\ UNCHANGED <<artifact, tilesDir, outFs, fs0, model, tile_paths, idx, results,
                   batch_timer, monitoring, output, bErr>>
    /\ BatchFrame

\* model = load_model(str(model_path)); results = []
BLoadModel ==
    /\ bpc = "load_model"
    /\ IF LoadModel(artifact).ok
       THEN /\ model' = LoadModel(artifact).value
            /\ results' = <<>>
            /\ bpc' = "glob"
            /\ UNCHANGED bErr
       ELSE /\ Abort("load_model", LoadModel(artifact).exc)
            /\ UNCHANGED <<model, results>>
    /\ UNCHANGED <<recVars, artifact, tilesDir, outFs, fs0, tile_paths, idx,
                   batch_timer, monitoring, output>>
    /\ BatchFrame

\* tile_paths = sorted(tiles_directory.glob("*.tif")), the empty check, and
\* the entry into `with Timer() as batch_timer`
BGlob ==
    /\ bpc = "glob"
    /\ tile_paths' = SortedNames(DOMAIN tilesDir)
    /\ IF NoTilesFound(tile_paths')
       THEN /\ Abort("glob", "FileNotFoundError")
            /\ UNCHANGED <<idx, batch_timer>>
       ELSE /\ batch_timer' = TimerEnter(NewTimer)
            /\ idx' = 1
            /\ bpc' = "loop"
            /\ UNCHANGED bErr
    /\ UNCHANGED <<recVars, artifact, tilesDir, outFs, fs0, model, results,
                   monitoring, output>>
    /\ BatchFrame

\* one pass through the body of `for tile_path in tile_paths`: the try
\* block, and the except block when the try block raised
BTile ==
    /\ bpc = "loop"
    /\ idx <= Len(tile_paths)
    /\ LockFree
    /\ LET name == tile_paths[idx]
           r == TileOutcome(tilesDir[name], model)
       IN  IF r.ok
           THEN \E d \in Elapsed :
                  LET prediction_timer == TimerExit(TimerEnter(NewTimer), d)
                      m1 == MIncrement(Rec, TILES_INFERRED, 1)
                      m2 == MIncrement(m1, PredictionKey(r.value.prediction), 1)
                      m3 == MRecordTiming(m2, INFERENCE_TIME, OrZero(prediction_timer.duration))
                      m4 == MRecordValue(m3, MEAN_INTENSITY, r.value.mean_intensity)
                  IN  /\ SetRec(m4)
                      /\ results' = Append(results, GetResult(r.value, name, "run-1"))
                      /\ idx' = idx + 1
                      /\ UNCHANGED <<bpc, bErr, batch_timer>>
           ELSE IF HandlerCatches(r.exc)
           THEN /\ SetRec(MIncrement(Rec, TILES_FAILED, 1))
                /\ idx' = idx + 1
                /\ UNCHANGED <<results, bpc, bErr, batch_timer>>
           ELSE /\ \E d \in Elapsed : batch_timer' = TimerExit(batch_timer, d)
                /\ Abort("tile", r.exc)
                /\ UNCHANGED <<recVars, results, idx>>
    /\ UNCHANGED <<artifact, tilesDir, outFs, fs0, model, tile_paths, monitoring, output>>
    /\ BatchFrame

\* the end of the loop and of the batch timer's block,
\* metrics.record_timing("batch_duration_seconds", ...), and
\* monitoring = build_monitoring_metrics(model, metrics)
BAggregate ==
    /\ bpc = "loop"
    /\ idx > Len(tile_paths)
    /\ LockFree
    /\ \E d \in Elapsed :
         /\ batch_timer' = TimerExit(batch_timer, d)
         /\ SetRec(MRecordTiming(Rec, BATCH_DURATION, OrZero(batch_timer'.duration)))
    /\ LET r == BuildMonitoringMetrics(model, [counters |-> counters', timings |-> timings',
                                               values |-> values', heap |-> heap'])
       IN  IF r.ok
           THEN /\ monitoring' = Some(r.value)
                /\ bpc' = "mkdir"
                /\ UNCHANGED bErr
           ELSE /\ Abort("monitoring", r.exc)
                /\ UNCHANGED monitoring
    /\ UNCHANGED <<artifact, tilesDir, outFs, fs0, model, tile_paths, idx, results, output>>
    /\ BatchFrame

\* output_path.parent.mkdir(parents=True, exist_ok=True), and output = {...}
BMkdir ==
    /\ bpc = "mkdir"
    /\ outFs' = [outFs EXCEPT !.parent = TRUE]
    /\ output' = Some(
          [metadata |->
              [run_id |-> "run-1", model_path |-> "model_path", tiles_directory |-> "tiles",
               tiles_inferred |-> DictGet(counters, TILES_INFERRED, 0),
               tiles_failed |-> DictGet(counters, TILES_FAILED, 0),
               batch_duration_seconds |-> OrZero(batch_timer.duration),
               monitoring |-> monitoring[1]],
           predictions |-> results])
    /\ bpc' = "open"
    /\ UNCHANGED <<recVars, artifact, tilesDir, fs0, model, tile_paths, idx, results,
                   batch_timer, monitoring, bErr>>
    /\ BatchFrame

\* open(output_path, "w"): the file is created or cut to nothing
BOpen ==
    /\ bpc = "open"
    /\ outFs' = [outFs EXCEPT !.file = [state |-> "partial", content |-> <<>>]]
    /\ bpc' = "dump"
    /\ UNCHANGED <<recVars, artifact, tilesDir, fs0, model, tile_paths, idx, results,
                   batch_timer, monitoring, output, bErr>>
    /\ BatchFrame

\* json.dump(output, f, indent=2), and the file is closed
BDump ==
    /\ bpc = "dump"
    /\ outFs' = [outFs EXCEPT !.file = [state |-> "complete", content |-> output]]
    /\ bpc' = "done"
    /\ UNCHANGED <<recVars, artifact, tilesDir, fs0, model, tile_paths, idx, results,
                   batch_timer, monitoring, output, bErr>>
    /\ BatchFrame

BatchStep == BStart \/ BLoadModel \/ BGlob \/ BTile \/ BAggregate \/ BMkdir \/ BOpen \/ BDump

\* ========================================================= HealthChecker
\* health.py, check_model_health(model, monitoring, drift_threshold).

RatAbs(a) == [n |-> Abs_(a.n), d |-> a.d]

\* abs(delta) > drift_threshold
DriftExceedsOrEquals(delta, drift_threshold) == RatGreaterEq(RatAbs(delta), drift_threshold)
DriftExceeds(delta, drift_threshold) == RatGreater(RatAbs(delta), drift_threshold)

CONSIDER_RETRAINING_MODEL == "Consider retraining the model with recent data."

SeqElems(q) == {q[i] : i \in DOMAIN q}

CheckModelHealth(mdl, mon, drift_threshold) ==
    IF ~RatGreater(drift_threshold, RatInt(0)) THEN Raised("ValueError")
    ELSE
    LET training_mean == GetOpt(mdl, "training_mean")
        training_std == GetOpt(mdl, "training_std")
        mean_delta == mon.drift.mean_intensity_delta
        std_delta == mon.drift.std_intensity_delta
        mean_drift == /\ training_mean # None
                      /\ mean_delta # None
                      /\ DriftExceeds(mean_delta[1], drift_threshold)
        std_drift == /\ training_std # None
                     /\ std_delta # None
                     /\ DriftExceeds(std_delta[1], drift_threshold)
        r1 == IF mean_drift THEN <<CONSIDER_RETRAINING_MODEL>> ELSE <<>>
        r2 == IF std_drift /\ CONSIDER_RETRAINING_MODEL \notin SeqElems(r1)
              THEN Append(r1, CONSIDER_RETRAINING_MODEL) ELSE r1
    IN  Returned([drift_detected |-> mean_drift \/ std_drift,
                  mean_intensity_delta |-> mean_delta,
                  std_intensity_delta |-> std_delta,
                  recommendations |-> r2])

\* the deltas a monitoring summary may carry, and the thresholds a caller may pass
Deltas == {None} \cup {Some(Rat(k, 2)) : k \in {-2, -1, 0, 1, 2}}
DriftThresholds == {RatInt(0), Half, One}

MonitoringSummaries ==
    {[mean_intensity |-> [mean |-> One, std |-> Half],
      drift |-> [mean_intensity_delta |-> dm, std_intensity_delta |-> ds]] :
        dm \in Deltas, ds \in Deltas}

InitHealth ==
    /\ hModel \in BatchModelFields
    /\ hMonitoring \in MonitoringSummaries
    /\ hThreshold \in DriftThresholds
    /\ hpc = "call"
    /\ hReport = Raised("pending")

IdleHealth ==
    /\ hModel = EmptyDict
    /\ hMonitoring = [mean_intensity |-> [mean |-> One, std |-> Half],
                      drift |-> [mean_intensity_delta |-> None, std_intensity_delta |-> None]]
    /\ hThreshold = Half
    /\ hpc = "idle"
    /\ hReport = Raised("pending")

HealthFrame == UNCHANGED <<recVars, thrVars, valVars, predVars, tileVars, batchVars, timerVars, trainVars, readerVars, runsVars, callVars>>

HealthCall ==
    /\ hpc = "call"
    /\ hReport' = CheckModelHealth(hModel, hMonitoring, hThreshold)
    /\ hpc' = IF hReport'.ok THEN "returned" ELSE "raised"
    /\ UNCHANGED <<hModel, hMonitoring, hThreshold>>
    /\ HealthFrame

\* ==================================================== Timer, scoped block
\* `with Timer() as timer: <block>`: __enter__, the block, which ends
\* normally or by raising, then __exit__ with the exception if any; the
\* exception goes on to the caller unless __exit__ returns True.

BlockOutcomes == {"none"} \cup PipelineExceptions \cup BuiltinExceptions

InitTimer ==
    /\ clock \in 0 .. MaxClock
    /\ tTimer = NewTimer
    /\ tpc = "new"
    /\ tRaised = "none"
    /\ tPropagated = "none"

IdleTimer ==
    /\ clock = 0
    /\ tTimer = NewTimer
    /\ tpc = "idle"
    /\ tRaised = "none"
    /\ tPropagated = "none"

TimerFrame == UNCHANGED <<recVars, thrVars, valVars, predVars, tileVars, batchVars, healthVars, trainVars, readerVars, runsVars, callVars>>

\* time.perf_counter() never goes back
TTick ==
    /\ tpc \in {"new", "body", "leaving"}
    /\ clock < MaxClock
    /\ clock' = clock + 1
    /\ UNCHANGED <<tTimer, tpc, tRaised, tPropagated>>
    /\ TimerFrame

TEnter ==
    /\ tpc = "new"
    /\ tTimer' = TimerEnterAt(tTimer, clock)
    /\ tpc' = "body"
    /\ UNCHANGED <<clock, tRaised, tPropagated>>
    /\ TimerFrame

TBody ==
    /\ tpc = "body"
    /\ tRaised' \in BlockOutcomes
    /\ tpc' = "leaving"
    /\ UNCHANGED <<clock, tTimer, tPropagated>>
    /\ TimerFrame

TExit ==
    /\ tpc = "leaving"
    /\ tTimer' = TimerExitAt(tTimer, clock, tRaised)
    /\ tPropagated' = IF TimerExitReturn THEN "none" ELSE tRaised
    /\ tpc' = "exited"
    /\ UNCHANGED <<clock, tRaised>>
    /\ TimerFrame

TimerStep == TTick \/ TEnter \/ TBody \/ TExit

\* =============================================================== Trainer
\* train.py, train_model(aggregated_features), and the training script
\* train_from_tiles.py with its own aggregate_features and train_model.

\* float(np.mean(means)) over a non-empty list
MeanOf(q) == RatDivInt(RatSum(q), Len(q))

\* float(np.std(means)), as the variance under the root
StdOf(q) ==
    LET m == MeanOf(q)
        sq == [i \in DOMAIN q |-> RatMul(RatSub(q[i], m), RatSub(q[i], m))]
    IN  [sqrt_of |-> RatDivInt(RatSum(sq), Len(q))]

\* train.py, train_model
TrainModel(aggregated_features) ==
    IF aggregated_features = <<>> THEN Raised("ValueError")
    ELSE LET means == [i \in DOMAIN aggregated_features |->
                           aggregated_features[i].mean_intensity]
             threshold == MeanOf(means)
             training_std == StdOf(means)
         IN  Returned(("threshold" :> threshold) @@ ("training_mean" :> threshold)
                      @@ ("training_std" :> training_std))

\* train_from_tiles.py, aggregate_features(tile_paths), over a non-empty list
AggregateFeatures(tiles) ==
    LET means == [i \in DOMAIN tiles |-> ExtractFeatures(tiles[i]).mean_intensity]
    IN  [global_mean_intensity |-> MeanOf(means)]

\* train_from_tiles.py, train_model(features)
TrainModelFromTiles(features) == ("threshold" :> features.global_mean_intensity)

\* train_from_tiles.py, the script: no tiles is an error, else aggregate and train
TrainFromTilesMain(tiles) ==
    IF tiles = <<>> THEN Raised("FileNotFoundError")
    ELSE Returned(TrainModelFromTiles(AggregateFeatures(tiles)))

Trainers == {"train", "train_from_tiles"}

TrainingSets == UNION {[1 .. k -> PixelSeqs] : k \in 0 .. MaxTrain}

InitTrain ==
    /\ trTiles \in TrainingSets
    /\ trainer \in Trainers
    /\ trpc = "call"
    /\ trResult = Raised("pending")

IdleTrain ==
    /\ trTiles = <<>>
    /\ trainer = "train"
    /\ trpc = "idle"
    /\ trResult = Raised("pending")

TrainFrame == UNCHANGED <<recVars, thrVars, valVars, predVars, tileVars, batchVars, healthVars, timerVars, readerVars, runsVars, callVars>>

TrainCall ==
    /\ trpc = "call"
    /\ trResult' = IF trainer = "train"
                   THEN TrainModel([i \in DOMAIN trTiles |-> ExtractFeatures(trTiles[i])])
                   ELSE TrainFromTilesMain(trTiles)
    /\ trpc' = "done"
    /\ UNCHANGED <<trTiles, trainer>>
    /\ TrainFrame

\* ================================================ reads without the lock
\* build_monitoring_metrics(model, metrics) reads metrics.counters and
\* metrics.values, and run_batch_inference reads metrics.counters for the
\* report, as plain attribute reads: none takes the recorder's lock. Other
\* callers of the same recorder run between these reads.

NothingSeen == [total_tiles |-> 0, n_values |-> 0, tiles_inferred |-> 0, tiles_failed |-> 0]

\* some caller is between the first and the last write of a mutation
MutationHalfApplied == \E t \in Threads : HalfAppliedAt(pc[t])

InitReader ==
    /\ rdpc = "mon_counters"
    /\ rdSeen = NothingSeen
    /\ rdMid = FALSE

IdleReader ==
    /\ rdpc = "idle"
    /\ rdSeen = NothingSeen
    /\ rdMid = FALSE

ReaderFrame == UNCHANGED <<recVars, thrVars, valVars, predVars, tileVars, batchVars, healthVars, timerVars, trainVars, runsVars, callVars>>

\* total_tiles = counters.get(TILES_INFERRED, 0)
MonReadCounters ==
    /\ rdpc = "mon_counters"
    /\ rdSeen' = [rdSeen EXCEPT !.total_tiles = DictGet(counters, TILES_INFERRED, 0)]
    /\ rdMid' = (rdMid \/ MutationHalfApplied)
    /\ rdpc' = "mon_values"
    /\ ReaderFrame

\* mean_intensities = values.get("mean_intensity", [])
MonReadValues ==
    /\ rdpc = "mon_values"
    /\ rdSeen' = [rdSeen EXCEPT !.n_values =
                     IF MEAN_INTENSITY \in DOMAIN values
                     THEN Len(heap[values[MEAN_INTENSITY]]) ELSE 0]
    /\ rdMid' = (rdMid \/ MutationHalfApplied)
    /\ rdpc' = "report"
    /\ ReaderFrame

\* metrics.counters.get(TILES_INFERRED, 0), metrics.counters.get(TILES_FAILED, 0)
ReportReadCounters ==
    /\ rdpc = "report"
    /\ rdSeen' = [rdSeen EXCEPT !.tiles_inferred = DictGet(counters, TILES_INFERRED, 0),
                                !.tiles_failed = DictGet(counters, TILES_FAILED, 0)]
    /\ rdMid' = (rdMid \/ MutationHalfApplied)
    /\ rdpc' = "done"
    /\ ReaderFrame

ReaderStep == MonReadCounters \/ MonReadValues \/ ReportReadCounters

\* =========================================== several runs in one process
\* batch_inferences.py: `metrics = MetricsRecorder()` is created once, when
\* the module is imported, and every invocation of run_batch_inference
\* resets it, writes to it and reads it. An invocation is followed here
\* through the statements that touch the recorder; each recorder call is
\* made under the lock and is one step, and the invocations' steps
\* interleave freely, so one may finish before the other starts or they
\* may overlap.

Runs == {"A", "B"}

\* the model every invocation loads
RunModel == JsonDict(("threshold" :> One))

\* the tile files an invocation enumerates: a bright tile or one of bad dtype
RunTileFiles == {GoodTile(<<2, 2>>), [GoodTile(<<2, 2>>) EXCEPT !.dtype = "int32"]}
RunTileLists == UNION {[1 .. k -> RunTileFiles] : k \in 1 .. MaxTiles}

NoReport == [tiles_inferred |-> 0, tiles_failed |-> 0, bright_count |-> 0, n_values |-> 0]

InitRuns ==
    /\ runTiles \in [Runs -> RunTileLists]
    /\ runpc = [r \in Runs |-> "start"]
    /\ runIdx = [r \in Runs |-> 0]
    /\ runReport = [r \in Runs |-> NoReport]

IdleRuns ==
    /\ runTiles = [r \in Runs |-> <<>>]
    /\ runpc = [r \in Runs |-> "idle"]
    /\ runIdx = [r \in Runs |-> 0]
    /\ runReport = [r \in Runs |-> NoReport]

RunsFrame == UNCHANGED <<thrVars, valVars, predVars, tileVars, batchVars, healthVars, timerVars, trainVars, readerVars, callVars>>

\* metrics.reset(), then load_model, the glob and the empty check
RunStart(r) ==
    /\ runpc[r] = "start"
    /\ LockFree
    /\ SetRec(MReset(Rec))
    /\ runpc' = [runpc EXCEPT ![r] = "loop"]
    /\ runIdx' = [runIdx EXCEPT ![r] = 1]
    /\ UNCHANGED <<runTiles, runReport>>
    /\ RunsFrame

\* one pass through the loop body
RunTile(r) ==
    /\ runpc[r] = "loop"
    /\ runIdx[r] <= Len(runTiles[r])
    /\ LockFree
    /\ LET o == TileOutcome(runTiles[r][runIdx[r]], RunModel)
       IN  IF o.ok
           THEN SetRec(MRecordValue(
                         MRecordTiming(
                           MIncrement(MIncrement(Rec, TILES_INFERRED, 1),
                                      PredictionKey(o.value.prediction), 1),
                           INFERENCE_TIME, 0),
                         MEAN_INTENSITY, o.value.mean_intensity))
           ELSE SetRec(MIncrement(Rec, TILES_FAILED, 1))
    /\ runIdx' = [runIdx EXCEPT ![r] = @ + 1]
    /\ UNCHANGED <<runTiles, runpc, runReport>>
    /\ RunsFrame

\* after the loop: record the batch duration, build the monitoring summary
\* and read the counters for the report
RunReportMetrics(r) ==
    /\ runpc[r] = "loop"
    /\ runIdx[r] > Len(runTiles[r])
    /\ LockFree
    /\ LET m == MRecordTiming(Rec, BATCH_DURATION, 0)
           s == BuildMonitoringMetrics(RunModel, m).value
       IN  /\ SetRec(m)
           /\ runReport' = [runReport EXCEPT ![r] =
                  [tiles_inferred |-> DictGet(m.counters, TILES_INFERRED, 0),
                   tiles_failed |-> DictGet(m.counters, TILES_FAILED, 0),
                   bright_count |-> s.prediction_distribution.bright_count,
                   n_values |-> IF MEAN_INTENSITY \in DOMAIN m.values
                                THEN Len(m.heap[m.values[MEAN_INTENSITY]]) ELSE 0]]
    /\ runpc' = [runpc EXCEPT ![r] = "done"]
    /\ UNCHANGED <<runTiles, runIdx>>
    /\ RunsFrame

RunsStep == \E r \in Runs : RunStart(r) \/ RunTile(r) \/ RunReportMetrics(r)

\* ================================== generate_tiles, called again and again
\* tile.py: every call does output_path.mkdir(parents=True, exist_ok=True)
\* and writes its tiles under the names 00000.tif, 00001.tif, ...; no
\* statement of generate_tiles removes a file. The directory starts absent
\* or empty, and a new call, with any raster and tile size, may follow a
\* call that returned or raised.

InitCalls == gCalls = 1
IdleCalls == gCalls = 0

InitTilesFirstCall ==
    /\ InitTiles
    /\ outdir \in {NoDir, EmptyDir}
    /\ InitCalls

GCallAgain ==
    /\ gpc \in {"done", "raised"}
    /\ gCalls < MaxCalls
    /\ gCalls' = gCalls + 1
    /\ gIn' \in [file : TilingRasters, tile_size : TileSizes]
    /\ gpc' = "validate"
    /\ row' = 0
    /\ column' = 0
    /\ tile_id' = 0
    /\ emitted' = <<>>
    /\ gLog' = Null
    /\ gRet' = NoReturn
    /\ UNCHANGED outdir
    /\ UNCHANGED <<recVars, thrVars, valVars, predVars, batchVars, healthVars, timerVars, trainVars, readerVars, runsVars>>

TileCallsStep == TileStep \/ GCallAgain

\* ======================================================= specifications

\* the batch run, in a process whose recorder is fresh or was used by an
\* earlier run
Init == InitRecorder /\ IdleValidate /\ IdlePredict /\ IdleTiles /\ InitBatch /\ IdleHealth /\ IdleTimer /\ IdleTrain /\ IdleReader /\ IdleRuns /\ IdleCalls
Next == BatchStep
Spec == Init /\ [][Next]_vars

InitRec == InitRecorder /\ IdleValidate /\ IdlePredict /\ IdleTiles /\ IdleBatch /\ IdleHealth /\ IdleTimer /\ IdleTrain /\ IdleReader /\ IdleRuns /\ IdleCalls
SpecRecorder == InitRec /\ [][RecorderStep]_vars

InitVal == IdleRecorder /\ InitValidate /\ IdlePredict /\ IdleTiles /\ IdleBatch /\ IdleHealth /\ IdleTimer /\ IdleTrain /\ IdleReader /\ IdleRuns /\ IdleCalls
SpecValidate == InitVal /\ [][ValidateStep]_vars

InitPred == IdleRecorder /\ IdleValidate /\ InitPredict /\ IdleTiles /\ IdleBatch /\ IdleHealth /\ IdleTimer /\ IdleTrain /\ IdleReader /\ IdleRuns /\ IdleCalls
SpecPredict == InitPred /\ [][PredictCall]_vars

InitGen == IdleRecorder /\ IdleValidate /\ IdlePredict /\ InitTiles /\ IdleBatch /\ IdleHealth /\ IdleTimer /\ IdleTrain /\ IdleReader /\ IdleRuns /\ IdleCalls
SpecTiles == InitGen /\ [][TileStep]_vars

InitHlt == IdleRecorder /\ IdleValidate /\ IdlePredict /\ IdleTiles /\ IdleBatch /\ InitHealth /\ IdleTimer /\ IdleTrain /\ IdleReader /\ IdleRuns /\ IdleCalls
SpecHealth == InitHlt /\ [][HealthCall]_vars

InitTmr == IdleRecorder /\ IdleValidate /\ IdlePredict /\ IdleTiles /\ IdleBatch /\ IdleHealth /\ InitTimer /\ IdleTrain /\ IdleReader /\ IdleRuns /\ IdleCalls
SpecTimer == InitTmr /\ [][TimerStep]_vars

InitTrn == IdleRecorder /\ IdleValidate /\ IdlePredict /\ IdleTiles /\ IdleBatch /\ IdleHealth /\ IdleTimer /\ InitTrain /\ IdleReader /\ IdleRuns /\ IdleCalls
SpecTrain == InitTrn /\ [][TrainCall]_vars

\* a run building its summary and report while other callers use the recorder
InitRdr == InitRecorder /\ IdleValidate /\ IdlePredict /\ IdleTiles /\ IdleBatch /\ IdleHealth /\ IdleTimer /\ IdleTrain /\ InitReader /\ IdleRuns /\ IdleCalls
NextReaders == RecorderStep \/ ReaderStep
SpecReaders == InitRdr /\ [][NextReaders]_vars

\* two invocations of run_batch_inference in one process
InitRns == InitRecorder /\ IdleValidate /\ IdlePredict /\ IdleTiles /\ IdleBatch /\ IdleHealth /\ IdleTimer /\ IdleTrain /\ IdleReader /\ InitRuns /\ IdleCalls
SpecRuns == InitRns /\ [][RunsStep]_vars

\* successive generate_tiles calls on one output directory
InitCls == IdleRecorder /\ IdleValidate /\ IdlePredict /\ InitTilesFirstCall /\ IdleBatch /\ IdleHealth /\ IdleTimer /\ IdleTrain /\ IdleReader /\ IdleRuns
SpecTileCalls == InitCls /\ [][TileCallsStep]_vars

\* ------------------------------------------------ claims on the recorder

AllDone == \A t \in Threads : pc[t] = "done"

AllIncrement(n) ==
    \A t \in Threads : pc[t] = "done" /\ op[t].kind = "increment" /\ op[t].name = n

\* C2: when every one of the N concurrent callers has made its one
\* increment(name) call on the same counter, the counter holds its initial
\* value plus N, whatever the interleaving was.
C2_NoLostIncrement ==
    \A n \in {TILES_INFERRED, TILES_FAILED} :
        AllIncrement(n) =>
            DictGet(counters, n, 0) = DictGet(rec0.counters, n, 0) + NThreads

\* all callers incremented a counter that started at 1
C2_Witness ==
    /\ AllIncrement(TILES_INFERRED)
    /\ DictGet(rec0.counters, TILES_INFERRED, 0) = 1
    /\ counters[TILES_INFERRED] = 1 + NThreads

SnapshotReturned(t) == pc[t] = "done" /\ op[t].kind = "snapshot"

\* C3: a returned snapshot equals the recorder's state at an instant at
\* which no mutation was half-applied, and whatever is done to the recorder
\* after the return, the snapshot still shows what it showed on return.
C3_SnapshotIsPointInTimeCopy ==
    \A t \in Threads :
        SnapshotReturned(t) =>
            /\ snapRet[t].consistent
            /\ SnapView(t) = snapRet[t].view

\* a snapshot of a non-empty recorder was returned and the recorder's lists
\* were changed afterwards
C3_Witness ==
    \E t \in Threads :
        /\ SnapshotReturned(t)
        /\ INFERENCE_TIME \in DOMAIN snapRet[t].view.timings
        /\ INFERENCE_TIME \in DOMAIN timings
        /\ heap[timings[INFERENCE_TIME]] # snapRet[t].view.timings[INFERENCE_TIME]

\* ------------------------------------------------- claims on the tiling

RECURSIVE DigitsValue(_)
DigitsValue(q) ==
    IF q = <<>> THEN 0 ELSE 10 * DigitsValue(SubSeq(q, 1, Len(q) - 1)) + q[Len(q)]

\* C6: a finished generate_tiles call on an H x W raster with tile size S
\* has emitted floor(H/S) * floor(W/S) tiles; the tile at grid position
\* (i, j) is the k-th emitted, k = i * floor(W/S) + j, its window starts at
\* (i*S, j*S), it holds S x S pixels, and its name is k as five digits.
C6_TilesAreTheFullWindows ==
    gpc = "done" =>
        LET S == gIn.tile_size.val
            nr == gIn.file.height \div S
            nc == gIn.file.width \div S
        IN  /\ Len(emitted) = nr * nc
            /\ tile_id = nr * nc
            /\ \A i \in 0 .. nr - 1 : \A j \in 0 .. nc - 1 :
                  LET e == emitted[i * nc + j + 1]
                  IN  /\ e.tile.row = i * S
                      /\ e.tile.column = j * S
                      /\ e.tile.row + S <= gIn.file.height
                      /\ e.tile.column + S <= gIn.file.width
                      /\ e.tile.data_h = S /\ e.tile.data_w = S
                      /\ e.tile.height = S /\ e.tile.width = S
                      /\ Len(e.name) = 5
                      /\ DigitsValue(e.name) = i * nc + j
                      /\ outdir.files[e.name] = e.tile

\* a call that tiled a raster in several tiles and discarded a remainder
C6_Witness ==
    /\ gpc = "done"
    /\ Len(emitted) >= 2
    /\ gIn.file.height % gIn.tile_size.val # 0

\* C7 as stated: generate_tiles returns the number of tiles it emitted.
C7_ReturnsTileCount ==
    gpc = "done" => gRet.kind = "int" /\ gRet.val = Len(emitted)

\* C7 as amended: generate_tiles logs the number of tiles it emitted and
\* returns None.
C7_LogsTileCountReturnsNone ==
    gpc = "done" => gRet.kind = "None" /\ gLog = Len(emitted)

\* a call that emitted tiles has returned
C7_Witness ==
    /\ gpc = "done"
    /\ gRet.kind = "None"
    /\ Len(emitted) = 4
    /\ gLog = 4

\* --------------------------------------------- claims on the validation

\* the outcome C8 gives for a raster file
ClaimedValidation(f) ==
    IF ~f.exists THEN "FileNotFoundError"
    ELSE IF f.crs = Null THEN "UndefinedCRSError"
    ELSE IF f.width <= 0 \/ f.height <= 0 THEN "InvalidRasterDimensionsError"
    ELSE IF f.dtype \notin {"uint8", "uint16", "int16", "float32", "float64"} THEN "ValueError"
    ELSE OK

\* C8: validate_raster ends with the error kind of the first violated check
\* in the order existence, CRS, dimensions, dtype (NotFound, UndefinedCRS,
\* InvalidDimensions, UnsupportedDtype), and passes when none is violated.
C8_FirstViolatedCheckDecides ==
    vpc \in {"passed", "raised"} => vOut = ClaimedValidation(vFile)

\* ------------------------------------------------- claims on predict

\* C9: for a model with a threshold, predict returns prediction 1 exactly
\* when the mean of the tile's pixels is strictly greater than the
\* threshold and 0 otherwise, returns that mean as mean_intensity, and
\* leaves the model as it was.
C9_PredictIsStrictThreshold ==
    /\ [](ppc = "returned" /\ pModel.type = "dict" /\ "threshold" \in DOMAIN pModel.fields =>
            LET thr == pModel.fields["threshold"]
            IN  /\ pResult.ok
                /\ pResult.value.prediction \in {0, 1}
                /\ pResult.value.prediction = 1 <=>
                       SumSeq(pTile) * thr.d > thr.n * Len(pTile)
                /\ pResult.value.mean_intensity.n * Len(pTile) =
                       SumSeq(pTile) * pResult.value.mean_intensity.d)
    /\ [][pModel' = pModel /\ pTile' = pTile]_vars

\* a tile whose mean equals the threshold was predicted 0
C9_Witness ==
    /\ ppc = "returned"
    /\ pModel.type = "dict"
    /\ "threshold" \in DOMAIN pModel.fields
    /\ SumSeq(pTile) * pModel.fields["threshold"].d = pModel.fields["threshold"].n * Len(pTile)
    /\ pResult.ok
    /\ pResult.value.prediction = 0

\* ------------------------------------------------ claims on the batch run

\* the report this run wrote
Written == outFs.file.content[1]

\* a tile passes validation, can be read, and the model can predict on it
TileSucceeds(f) ==
    /\ ValidateRaster(f) = OK
    /\ f.readable
    /\ model.type = "dict"
    /\ "threshold" \in DOMAIN model.fields

Succeeded(name) == TileSucceeds(tilesDir[name])

\* C1: in a run that got past the model load and the empty-directory check
\* over n tile files, no tile's failure ends the run: after each tile the
\* inferred and failed counters add up to the tiles handled so far, and the
\* report written has tiles_inferred + tiles_failed = n and one prediction
\* for each tile that succeeded, in order, and none for a tile that failed.
C1_FailingTileNeverAborts ==
    /\ bErr.at # "tile"
    /\ bpc = "loop" =>
          /\ DictGet(counters, TILES_INFERRED, 0) + DictGet(counters, TILES_FAILED, 0) = idx - 1
          /\ Len(results) = DictGet(counters, TILES_INFERRED, 0)
    /\ bpc = "done" =>
          /\ outFs.file.state = "complete"
          /\ Len(tile_paths) = Cardinality(DOMAIN tilesDir)
          /\ Written.metadata.tiles_inferred + Written.metadata.tiles_failed = Len(tile_paths)
          /\ Len(Written.predictions) = Written.metadata.tiles_inferred
          /\ [i \in DOMAIN Written.predictions |-> Written.predictions[i].tile_id]
                 = [i \in DOMAIN SelectSeq(tile_paths, Succeeded) |->
                        Stem(SelectSeq(tile_paths, Succeeded)[i])]

\* a report was written for a run in which one tile failed and another succeeded
C1_Witness ==
    /\ bpc = "done"
    /\ Written.metadata.tiles_failed >= 1
    /\ Written.metadata.tiles_inferred >= 1
    /\ Len(Written.predictions) = Written.metadata.tiles_inferred

\* the model artifact cannot be loaded, or no tile file matches
FatalCondition ==
    \/ artifact.kind \in {"missing", "malformed"}
    \/ DOMAIN tilesDir = {}

\* C4: when the model artifact cannot be loaded or the tiles directory has
\* no tile file, the run ends with an exception and, at every moment, the
\* file at output_path and its parent directory are as they were when the
\* run started.
C4_FatalAbortWritesNothing ==
    /\ FatalCondition => /\ outFs = fs0
                         /\ bpc \in {"start", "load_model", "glob", "aborted"}
    /\ bpc = "aborted" /\ bErr.at \in {"load_model", "glob"} => FatalCondition /\ outFs = fs0

\* the run over an empty directory ended with FileNotFoundError, and the
\* report of an earlier run is still there
C4_Witness ==
    /\ bpc = "aborted"
    /\ bErr = [at |-> "glob", exc |-> "FileNotFoundError"]
    /\ DOMAIN tilesDir = {}
    /\ fs0.file.state = "complete"
    /\ outFs.file = [state |-> "complete", content |-> <<OldReport>>]

\* the artifact is missing, is not JSON, or holds no threshold
Defective ==
    \/ artifact.kind \in {"missing", "malformed"}
    \/ artifact.json.type # "dict"
    \/ "threshold" \notin DOMAIN artifact.json.fields

\* C5: when the model artifact is missing or malformed, a readable artifact
\* without a threshold included, the run ends while loading the model,
\* before any tile is handled: no tile is counted as failed and no report
\* is written.
C5_DefectiveModelAbortsAtLoad ==
    Defective =>
        /\ idx <= 1
        /\ bpc # "start" => DictGet(counters, TILES_FAILED, 0) = 0
        /\ bpc \notin {"mkdir", "open", "dump", "done"}

\* the monitoring summary of this run, once built
Summary == monitoring[1]
SummaryBuilt == monitoring # None
RecordedMeans == IF MEAN_INTENSITY \in DOMAIN values THEN heap[values[MEAN_INTENSITY]] ELSE <<>>
MeanOfRecorded == IF RecordedMeans = <<>> THEN RatInt(0)
                  ELSE Rat(RatSum(RecordedMeans).n,
                           RatSum(RecordedMeans).d * Len(RecordedMeans))

\* C10, as stated: drift.mean_intensity_delta is the mean of the recorded
\* mean intensities minus training_mean when the model has a training_mean
\* and null when it has none, whether or not it has a threshold;
\* drift.std_intensity_delta is null exactly when training_std is absent.
C10_DeltaNullWithoutTrainingMean ==
    SummaryBuilt =>
        /\ "training_mean" \in DOMAIN model.fields =>
              Summary.drift.mean_intensity_delta
                  = Some(RatSub(MeanOfRecorded, model.fields["training_mean"]))
        /\ "training_mean" \notin DOMAIN model.fields =>
              Summary.drift.mean_intensity_delta = None
        /\ Summary.drift.std_intensity_delta = None <=>
              "training_std" \notin DOMAIN model.fields

\* C10, amended: drift.mean_intensity_delta is the mean of the recorded
\* mean intensities minus training_mean when the model has a training_mean,
\* minus threshold when it has a threshold and no training_mean, and null
\* only when it has neither; drift.std_intensity_delta is null exactly when
\* training_std is absent.
C10_DeltaFallsBackToThreshold ==
    SummaryBuilt =>
        /\ "training_mean" \in DOMAIN model.fields =>
              Summary.drift.mean_intensity_delta
                  = Some(RatSub(MeanOfRecorded, model.fields["training_mean"]))
        /\ "training_mean" \notin DOMAIN model.fields /\ "threshold" \in DOMAIN model.fields =>
              Summary.drift.mean_intensity_delta
                  = Some(RatSub(MeanOfRecorded, model.fields["threshold"]))
        /\ {"training_mean", "threshold"} \cap DOMAIN model.fields = {} =>
              Summary.drift.mean_intensity_delta = None
        /\ Summary.drift.std_intensity_delta = None <=>
              "training_std" \notin DOMAIN model.fields

\* a summary was built over recorded intensities for a model with a
\* threshold and no training_mean, and its delta is not null
C10_Witness ==
    /\ SummaryBuilt
    /\ RecordedMeans # <<>>
    /\ "training_mean" \notin DOMAIN model.fields
    /\ "threshold" \in DOMAIN model.fields
    /\ Summary.drift.mean_intensity_delta # None

\* ------------------------------------------------ claims on the health check

\* the metric's baseline is in the model and the absolute value of its
\* delta is strictly above the threshold
MetricDrifts(baseline, delta) ==
    /\ baseline \in DOMAIN hModel
    /\ delta # None
    /\ (IF delta[1].n < 0 THEN -delta[1].n ELSE delta[1].n) * hThreshold.d
           > hThreshold.n * delta[1].d

\* C11: for a positive drift_threshold, check_model_health returns
\* drift_detected = true exactly when the mean or the std metric has its
\* training baseline in the model and |delta| > drift_threshold; a metric
\* without a baseline never causes drift, and |delta| = drift_threshold is
\* not drift.
C11_DriftIffBaselineAndDeltaAboveThreshold ==
    hpc # "call" /\ hThreshold.n > 0 =>
        /\ hReport.ok
        /\ hReport.value.drift_detected <=>
              \/ MetricDrifts("training_mean", hMonitoring.drift.mean_intensity_delta)
              \/ MetricDrifts("training_std", hMonitoring.drift.std_intensity_delta)

\* a check returned no drift for a mean delta equal to the threshold, with
\* a std delta above the threshold whose baseline the model lacks
C11_Witness ==
    /\ hpc = "returned"
    /\ "training_mean" \in DOMAIN hModel
    /\ "training_std" \notin DOMAIN hModel
    /\ hMonitoring.drift.mean_intensity_delta = Some(Rat(-1, 2))
    /\ hMonitoring.drift.std_intensity_delta = Some(One)
    /\ hThreshold = Half
    /\ hReport.value.drift_detected = FALSE

\* ------------------------------------------- claims on the written report

\* C12: the report is written as one atomic write: at every moment the
\* file at output_path is absent, holds the complete content it had when
\* the run started, or holds the complete new report; it is never empty or
\* partly written.
C12_ReportWriteIsAtomic ==
    \/ outFs.file = Absent
    \/ outFs.file = fs0.file
    \/ /\ output # None
       /\ outFs.file = [state |-> "complete", content |-> output]

\* ----------------------------------------------------- claims on the Timer

\* C13: after a Timer's scoped block was left, normally or by raising, the
\* timer's duration is set and is not negative, and an exception raised in
\* the block has reached the caller.
C13_DurationSetOnEveryExit ==
    tpc = "exited" =>
        /\ tTimer.duration # None
        /\ tTimer.duration[1] >= 0
        /\ tPropagated = tRaised

\* a block that raised KeyError was left one second after it was entered
C13_Witness ==
    /\ tpc = "exited"
    /\ tRaised = "KeyError"
    /\ tPropagated = "KeyError"
    /\ tTimer.duration = Some(1)

\* -------------------------------------------------- claims on the training

\* the mean of the per-tile mean intensities of the training tiles
TrainingSetMean ==
    LET means == [i \in DOMAIN trTiles |-> Rat(SumSeq(trTiles[i]), Len(trTiles[i]))]
    IN  Rat(RatSum(means).n, RatSum(means).d * Len(trTiles))

\* C14: training on a non-empty set gives a model with threshold,
\* training_mean and training_std, where threshold = training_mean = the
\* mean of the per-tile mean intensities; training on an empty set fails
\* and gives no model.
C14_TrainedModelCarriesBaseline ==
    trpc = "done" =>
        IF trTiles = <<>> THEN ~trResult.ok
        ELSE /\ trResult.ok
             /\ {"threshold", "training_mean", "training_std"} \subseteq DOMAIN trResult.value
             /\ trResult.value["threshold"] = TrainingSetMean
             /\ trResult.value["training_mean"] = trResult.value["threshold"]

\* ------------------------------------------ claims on the lock discipline

\* C15: every read of the recorder's maps, those made for the monitoring
\* summary and for the report's tiles_inferred and tiles_failed included,
\* is made under the recorder's lock or on a snapshot, so no read sees the
\* maps while another caller's increment, record_timing, record_value or
\* reset is half applied.
C15_NoReadInsideAMutation == ~rdMid

\* ------------------------------------------- claims on runs in one process

\* the tiles of invocation r that pass validation, load and prediction
OwnSucceeded(r) ==
    Cardinality({i \in DOMAIN runTiles[r] : TileOutcome(runTiles[r][i], RunModel).ok})

\* C16: whatever the placement of other invocations in the same process,
\* earlier or overlapping, a run reports tiles_inferred + tiles_failed =
\* the number of tiles it enumerated, and its counts and values are those
\* of its own tiles only.
C16_ReportCountsOwnTilesOnly ==
    \A r \in Runs :
        runpc[r] = "done" =>
            /\ runReport[r].tiles_inferred + runReport[r].tiles_failed = Len(runTiles[r])
            /\ runReport[r].tiles_inferred = OwnSucceeded(r)
            /\ runReport[r].bright_count = OwnSucceeded(r)
            /\ runReport[r].n_values = OwnSucceeded(r)

\* ------------------------------------------- claims on the order of tiles

\* a comes strictly before b in lexicographic order
SeqBefore(a, b) ==
    \E k \in 1 .. Len(b) :
        /\ \A i \in 1 .. k - 1 : i <= Len(a) /\ a[i] = b[i]
        /\ \/ k = Len(a) + 1
           \/ k <= Len(a) /\ a[k] < b[k]

\* the tile ids of the predictions made so far
PredictedIds == [i \in DOMAIN results |-> results[i].tile_id]

\* the tile ids of the succeeded tiles among the first n enumerated
SucceededIds(n) ==
    LET done == SelectSeq(SubSeq(tile_paths, 1, n), Succeeded)
    IN  [i \in DOMAIN done |-> Stem(done[i])]

\* the tile files are enumerated each once, in lexicographic order of
\* their file names, and handled one at a time in that order
AttemptedInFileNameOrder ==
    bpc \in {"loop", "mkdir", "open", "dump", "done"} =>
        /\ {tile_paths[i] : i \in DOMAIN tile_paths} = DOMAIN tilesDir
        /\ Len(tile_paths) = Cardinality(DOMAIN tilesDir)
        /\ \A i, j \in DOMAIN tile_paths : i < j => SeqBefore(tile_paths[i], tile_paths[j])
        /\ idx \in 1 .. Len(tile_paths) + 1
        /\ bpc # "loop" => idx = Len(tile_paths) + 1

\* C17, as stated: the tiles are attempted each once in lexicographic file
\* name order, and the report's predictions are the tile ids of the
\* succeeded tiles in lexicographic order of the tile ids.
C17_PredictionsSortedByTileId ==
    /\ AttemptedInFileNameOrder
    /\ bpc = "done" =>
          /\ Written.predictions = results
          /\ {PredictedIds[i] : i \in DOMAIN PredictedIds}
                = {Stem(n) : n \in {m \in DOMAIN tilesDir : Succeeded(m)}}
          /\ \A i, j \in DOMAIN PredictedIds :
                i < j => SeqBefore(PredictedIds[i], PredictedIds[j])

\* C17, amended: the tiles are attempted each once in lexicographic file
\* name order, and the report's predictions are the tile ids (file stems)
\* of the succeeded tiles in the order of their file names.
C17_PredictionsInFileNameOrder ==
    /\ AttemptedInFileNameOrder
    /\ bpc \in {"loop", "mkdir", "open", "dump", "done"} => PredictedIds = SucceededIds(idx - 1)
    /\ bpc = "done" =>
          /\ Written.predictions = results
          /\ PredictedIds = SucceededIds(Len(tile_paths))

\* a report was written for the tiles 0-0.tif and 0.tif, both succeeded:
\* the predictions are 0-0 then 0, the order of the file names
C17_Witness ==
    /\ bpc = "done"
    /\ DOMAIN tilesDir = {FileName(<<0>>), FileName(<<0, Dash, 0>>)}
    /\ [i \in DOMAIN Written.predictions |-> Written.predictions[i].tile_id]
          = << <<0, Dash, 0>>, <<0>> >>

\* ------------------------------------ claims on the per-success records

Counter(name) == DictGet(counters, name, 0)
Samples(m, name) == IF name \in DOMAIN m THEN Len(heap[m[name]]) ELSE 0

\* the records kept for successes agree with each other
SuccessRecordsAgree ==
    /\ Counter("prediction_0") + Counter("prediction_1") = Counter(TILES_INFERRED)
    /\ Samples(values, MEAN_INTENSITY) = Counter(TILES_INFERRED)
    /\ Samples(timings, INFERENCE_TIME) = Counter(TILES_INFERRED)
    /\ Len(results) = Counter(TILES_INFERRED)

PercentageInRange(p) == 0 <= p.n /\ p.n <= 100 * p.d

\* C18: between tiles and after the loop, prediction_0 + prediction_1 =
\* tiles_inferred = the number of mean_intensity values = the number of
\* inference_time_seconds samples = the length of the predictions list;
\* handling a tile adds one to tiles_inferred or one to tiles_failed, never
\* to both; and bright_percentage is between 0 and 100.
C18_SuccessRecordsAgree ==
    /\ [](bpc \in {"loop", "mkdir", "open", "dump", "done"} =>
            /\ SuccessRecordsAgree
            /\ Counter(TILES_INFERRED) + Counter(TILES_FAILED) = idx - 1)
    /\ [](SummaryBuilt =>
            PercentageInRange(Summary.prediction_distribution.bright_percentage))
    /\ [](bpc = "done" =>
            /\ Len(Written.predictions) = Written.metadata.tiles_inferred
            /\ Written.metadata.monitoring.prediction_distribution.bright_count
                 + Written.metadata.monitoring.prediction_distribution.dark_count
                 = Written.metadata.tiles_inferred)
    /\ [][bpc = "loop" /\ idx' = idx + 1 =>
            LET di == DictGet(counters', TILES_INFERRED, 0) - Counter(TILES_INFERRED)
                df == DictGet(counters', TILES_FAILED, 0) - Counter(TILES_FAILED)
            IN  <<di, df>> \in {<<1, 0>>, <<0, 1>>}]_vars

\* a report over one bright and one dark tile: two inferred, half of them bright
C18_Witness ==
    /\ bpc = "done"
    /\ Written.metadata.tiles_inferred = 2
    /\ Written.metadata.monitoring.prediction_distribution.bright_percentage = RatInt(50)
    /\ Samples(values, MEAN_INTENSITY) = 2

\* --------------------------------------- claims on the output directory

\* C19: after any sequence of generate_tiles calls on one output
\* directory, when the last call has returned the directory holds exactly
\* its floor(H/S) * floor(W/S) tiles, each S x S and written by that call;
\* no tile file of an earlier call is left.
C19_DirectoryHoldsLastCallOnly ==
    gpc = "done" =>
        LET S == gIn.tile_size.val
            nr == gIn.file.height \div S
            nc == gIn.file.width \div S
        IN  /\ Cardinality(DOMAIN outdir.files) = nr * nc
            /\ \A name \in DOMAIN outdir.files :
                  /\ outdir.files[name].height = S
                  /\ outdir.files[name].width = S
                  /\ \E i \in DOMAIN emitted :
                        emitted[i] = [name |-> name, tile |-> outdir.files[name]]

====
